---- MODULE Spec2Model ----
(***************************************************************************)
(* A model of the data structures of the Dijkstra routing program:         *)
(*   HashMap  (hash_map.py)  buckets of chains, resize to the next prime   *)
(*   Graph    (graph.py)     vertices kept in a HashMap, edge lists        *)
(*   Dijkstra (program.py)   shortest paths and route reconstruction       *)
(* Keys and vertex data are small naturals; Python's hash of a small       *)
(* non-negative int is the int itself, so the default hash function is     *)
(* key % capacity.  Floats (load factor, weights) are modelled by exact    *)
(* integer arithmetic: the threshold 0.6 is kept in tenths.                *)
(***************************************************************************)
EXTENDS Integers, Sequences, FiniteSets, TLC

VARIABLES map, given, expected, lastOp, graph, added, others, gop,
          eng, pc, origin, destination, vertex_array, minimum_distance_vertex,
          output, queries, arr, aop

mapVars == <<map, given, expected, lastOp>>
graphVars == <<graph, added, others, gop>>
engVars == <<eng, pc, origin, destination, vertex_array, minimum_distance_vertex,
            output, queries>>
arrayVars == <<arr, aop>>
vars == <<map, given, expected, lastOp, graph, added, others, gop,
          eng, pc, origin, destination, vertex_array, minimum_distance_vertex,
          output, queries, arr, aop>>

(***************************************************************************)
(* Bounds of the model.                                                    *)
(***************************************************************************)
MaxKey == 3
MaxVal == 2
MaxCapacity == 7

Keys == 0..MaxKey
Vals == 1..MaxVal
None == -1
InitCapacities == {0, 1, 2, 4, 7}
RehashSizes == {0, 1, 3}
HashFunctions == {"mod", "half"}

(***************************************************************************)
(* sympy.nextprime(n): the smallest prime strictly greater than n.         *)
(***************************************************************************)
IsPrime(n) == n > 1 /\ \A d \in 2..(n - 1) : n % d # 0

NextPrimeGE(n) ==
    CHOOSE p \in n..(2 * n + 2) :
        IsPrime(p) /\ \A q \in n..(p - 1) : ~IsPrime(q)

nextprime(n) ==
    CHOOSE p \in (n + 1)..(2 * n + 2) :
        IsPrime(p) /\ \A q \in (n + 1)..(p - 1) : ~IsPrime(q)

(***************************************************************************)
(* LinkedList: the chain of a bucket and the edge list of a vertex.        *)
(***************************************************************************)
ListAppend(list, item) == Append(list, item)

ListContains(list, item) == \E i \in 1..Len(list) : list[i] = item

ListExtract(list, item) ==
    LET i == CHOOSE j \in 1..Len(list) :
                 list[j] = item /\ \A h \in 1..(j - 1) : list[h] # item
    IN  SubSeq(list, 1, i - 1) \o SubSeq(list, i + 1, Len(list))

(***************************************************************************)
(* Array(size): size slots holding the default item value.                 *)
(* [x] * size is the empty list for a negative size.                       *)
(***************************************************************************)
ArrayOf(size, item) == [i \in 1..(IF size > 0 THEN size ELSE 0) |-> item]

(***************************************************************************)
(* HashMap.  A map is [buckets, size, hash, lft, count]: buckets the items  *)
(* of the bucket Array, size the length that Array reports (the capacity   *)
(* it was constructed with), lft the load factor threshold in tenths.  An  *)
(* operation yields [err, map, val]: err is "none" or the exception        *)
(* raised, in which case map is the map as the exception left it.          *)
(***************************************************************************)
DefaultLoadFactorThreshold == 6

Pair(k, v) == [key |-> k, value |-> v]

Ok(m, v) == [err |-> "none", map |-> m, val |-> v]

Raise(e, m) == [err |-> e, map |-> m, val |-> None]

default_hash_function(h, key, capacity) ==
    IF h = "half" THEN (key \div 2) % capacity ELSE key % capacity

NewHashMap(capacity, h) ==
    [buckets |-> ArrayOf(capacity, <<>>),
     size    |-> capacity,
     hash    |-> h,
     lft     |-> DefaultLoadFactorThreshold,
     count   |-> 0]

\* __init__: the hash function must be callable; the capacity is not looked
\* at, and the load factor threshold given is dropped for the class default
HashMapInit(capacity, hash_function, load_factor_threshold) ==
    IF hash_function \notin HashFunctions THEN Raise("TypeError", None)
    ELSE Ok(NewHashMap(capacity, hash_function), None)

Capacity(m) == Len(m.buckets)

\* len() of an Array constructed with a negative size raises ValueError
CapacityRaises(m) == m.size < 0

HashLen(m) == m.count

LoadFactorExceeded(m) == m.count * 10 > m.lft * Capacity(m)

NewBucketCapacityGE(m) == NextPrimeGE((m.count * 10 + m.lft - 1) \div m.lft)

NewBucketCapacity(m) == nextprime((m.count * 10) \div m.lft)

RECURSIVE FlattenFrom(_, _)
FlattenFrom(buckets, i) ==
    IF i > Len(buckets) THEN <<>>
    ELSE buckets[i] \o FlattenFrom(buckets, i + 1)

ItemsDropLast(m) ==
    LET all == FlattenFrom(m.buckets, 1)
    IN  IF Len(all) > 1 THEN SubSeq(all, 1, Len(all) - 1) ELSE all

Items(m) == FlattenFrom(m.buckets, 1)

HashKeys(m) == [i \in 1..Len(Items(m)) |-> Items(m)[i].key]

HashValues(m) == [i \in 1..Len(Items(m)) |-> Items(m)[i].value]

\* the first pair of the chain with this key: what `for pair in chain` finds
FirstWithKey(chain, key) ==
    LET i == CHOOSE j \in 1..Len(chain) :
                 chain[j].key = key /\ \A h \in 1..(j - 1) : chain[h].key # key
    IN  chain[i]

ChainHasKey(chain, key) == \E i \in 1..Len(chain) : chain[i].key = key

GetItem(m, key) ==
    IF CapacityRaises(m) THEN Raise("ValueError", m)
    ELSE IF Capacity(m) = 0 THEN Raise("ZeroDivisionError", m)
    ELSE LET chain == m.buckets[default_hash_function(m.hash, key, Capacity(m)) + 1]
         IN  IF ChainHasKey(chain, key)
             THEN Ok(m, FirstWithKey(chain, key).value)
             ELSE Raise("KeyError", m)

Contains(m, key) == GetItem(m, key).err = "none"

RECURSIVE SetItem(_, _, _)
RECURSIVE ResizeAndRehash(_, _, _)
RECURSIVE InsertAll(_, _, _)

\* new_hash_map[key] = value for every item, stopping at the first exception
InsertAll(r, items, i) ==
    IF r.err # "none" \/ i > Len(items) THEN r
    ELSE InsertAll(SetItem(r.map, items[i].key, items[i].value), items, i + 1)

ResizeAndRehashKeepsBuckets(m, new_table_size, new_hash_function) ==
    Ok([m EXCEPT !.buckets = [i \in 1..(IF new_table_size > 0 THEN new_table_size ELSE 0) |->
                                 IF i <= Len(m.buckets) THEN m.buckets[i] ELSE <<>>],
                 !.size = new_table_size,
                 !.hash = new_hash_function,
                 !.count = Len(Items(m))], None)

ResizeAndRehash(m, new_table_size, new_hash_function) ==
    LET r == InsertAll(Ok(NewHashMap(new_table_size, new_hash_function), None),
                       Items(m), 1)
    IN  IF r.err # "none" THEN Raise(r.err, m) ELSE Ok(r.map, None)

SetItemKeepsOld(m, key, value) ==
    IF CapacityRaises(m) THEN Raise("ValueError", m)
    ELSE IF Capacity(m) = 0 THEN Raise("ZeroDivisionError", m)
    ELSE LET r == IF LoadFactorExceeded(m)
                  THEN ResizeAndRehash(m, NewBucketCapacity(m), m.hash)
                  ELSE Ok(m, None)
         IN  IF r.err # "none" THEN r
             ELSE LET m1 == r.map
                      b == default_hash_function(m1.hash, key, Capacity(m1)) + 1
                      chain == m1.buckets[b]
                  IN  IF ChainHasKey(chain, key)
                      THEN Ok([m1 EXCEPT !.buckets[b] = ListAppend(chain, Pair(key, value))],
                              None)
                      ELSE Ok([m1 EXCEPT !.buckets[b] = ListAppend(chain, Pair(key, value)),
                                         !.count = @ + 1], None)

SetItem(m, key, value) ==
    IF CapacityRaises(m) THEN Raise("ValueError", m)
    ELSE IF Capacity(m) = 0 THEN Raise("ZeroDivisionError", m)
    ELSE LET r == IF LoadFactorExceeded(m)
                  THEN ResizeAndRehash(m, NewBucketCapacity(m), m.hash)
                  ELSE Ok(m, None)
         IN  IF r.err # "none" THEN r
             ELSE LET m1 == r.map
                      b == default_hash_function(m1.hash, key, Capacity(m1)) + 1
                      chain == m1.buckets[b]
                  IN  IF ChainHasKey(chain, key)
                      THEN Ok([m1 EXCEPT !.buckets[b] =
                                  ListAppend(ListExtract(chain, FirstWithKey(chain, key)),
                                             Pair(key, value))], None)
                      ELSE Ok([m1 EXCEPT !.buckets[b] = ListAppend(chain, Pair(key, value)),
                                         !.count = @ + 1], None)

DelItem(m, key) ==
    IF CapacityRaises(m) THEN Raise("ValueError", m)
    ELSE IF Capacity(m) = 0 THEN Raise("ZeroDivisionError", m)
    ELSE LET b == default_hash_function(m.hash, key, Capacity(m)) + 1
             chain == m.buckets[b]
         IN  IF ChainHasKey(chain, key)
             THEN Ok([m EXCEPT !.buckets[b] = ListExtract(chain, FirstWithKey(chain, key))],
                     None)
             ELSE Raise("KeyError", m)

HashClear(m) == [m EXCEPT !.buckets = [i \in 1..Capacity(m) |-> <<>>], !.count = 0]

\* the keys stored anywhere in the chains, and how often each occurs
Occurrences(m, key) ==
    Cardinality({i \in 1..Len(Items(m)) : Items(m)[i].key = key})

KeysPresent(m) == {Items(m)[i].key : i \in 1..Len(Items(m))}

(***************************************************************************)
(* The hash map under any sequence of set, get, delete, clear and explicit *)
(* rehash.  expected[k] is the value of the last successful set of k since *)
(* k was last deleted or the map cleared, None when there is none.      *)
(***************************************************************************)
\* the outcome of the last call: the operation, the exception raised, and
\* whether a set found the load factor exceeded
Op(op, err, resized) == [op |-> op, err |-> err, resized |-> resized]

MapInit ==
    /\ \E c \in InitCapacities :
          /\ map = HashMapInit(c, "mod", DefaultLoadFactorThreshold).map
          /\ given = [threshold |-> DefaultLoadFactorThreshold]
    /\ expected = [k \in Keys |-> None]
    /\ lastOp = Op("init", "none", FALSE)
    /\ graph = [vertices |-> NewHashMap(7, "mod"), objs |-> <<>>]
    /\ added = <<>>
    /\ others = 0
    /\ gop = [op |-> "init", arg |-> None, err |-> "none"]
    /\ eng = <<>>
    /\ pc = "off"
    /\ origin = None
    /\ destination = None
    /\ vertex_array = <<>>
    /\ minimum_distance_vertex = None
    /\ output = <<>>
    /\ queries = 0
    /\ arr = <<>>
    /\ aop = <<>>

Set(k, v) ==
    LET r == SetItem(map, k, v)
    IN  /\ Capacity(r.map) <= MaxCapacity
        /\ map' = r.map
        /\ expected' = IF r.err = "none" THEN [expected EXCEPT ![k] = v] ELSE expected
        /\ lastOp' = Op("set", r.err, Capacity(map) # 0 /\ LoadFactorExceeded(map))
        /\ UNCHANGED <<given, graphVars, engVars, arrayVars>>

Get(k) ==
    LET r == GetItem(map, k)
    IN  /\ map' = r.map
        /\ lastOp' = Op("get", r.err, FALSE)
        /\ UNCHANGED <<given, expected, graphVars, engVars, arrayVars>>

Del(k) ==
    LET r == DelItem(map, k)
    IN  /\ map' = r.map
        /\ expected' = IF r.err = "none" THEN [expected EXCEPT ![k] = None] ELSE expected
        /\ lastOp' = Op("del", r.err, FALSE)
        /\ UNCHANGED <<given, graphVars, engVars, arrayVars>>

Clear ==
    /\ map' = HashClear(map)
    /\ expected' = [k \in Keys |-> None]
    /\ lastOp' = Op("clear", "none", FALSE)
    /\ UNCHANGED <<given, graphVars, engVars, arrayVars>>

Rehash(n, h) ==
    LET r == ResizeAndRehash(map, n, h)
    IN  /\ map' = r.map
        /\ lastOp' = Op("rehash", r.err, FALSE)
        /\ UNCHANGED <<given, expected, graphVars, engVars, arrayVars>>

MapNext ==
    \/ \E k \in Keys, v \in Vals : Set(k, v)
    \/ \E k \in Keys : Get(k)
    \/ \E k \in Keys : Del(k)
    \/ Clear
    \/ \E n \in RehashSizes, h \in HashFunctions : Rehash(n, h)

(***************************************************************************)
(* The hash map as constructed with any capacity and any load factor       *)
(* threshold (in tenths), the ones outside their ranges included, and then *)
(* used.  given keeps the threshold the map was constructed with; the      *)
(* capacity it was constructed with is the size of its bucket array.       *)
(***************************************************************************)
ConstructCapacities == {-1, 0, 4}

Thresholds == {-1, 3, 6, 11}

ConstructInit ==
    /\ \E c \in ConstructCapacities, t \in Thresholds :
          /\ map = HashMapInit(c, "mod", t).map
          /\ lastOp = Op("init", HashMapInit(c, "mod", t).err, FALSE)
          /\ given = [threshold |-> t]
    /\ expected = [k \in Keys |-> None]
    /\ graph = [vertices |-> NewHashMap(7, "mod"), objs |-> <<>>]
    /\ added = <<>>
    /\ others = 0
    /\ gop = [op |-> "init", arg |-> None, err |-> "none"]
    /\ eng = <<>>
    /\ pc = "off"
    /\ origin = None
    /\ destination = None
    /\ vertex_array = <<>>
    /\ minimum_distance_vertex = None
    /\ output = <<>>
    /\ queries = 0
    /\ arr = <<>>
    /\ aop = <<>>

ConstructNext ==
    \/ \E k \in Keys, v \in Vals : Set(k, v)
    \/ \E k \in Keys : Get(k)
    \/ \E k \in Keys : Del(k)

(***************************************************************************)
(* Graph.  A graph is [vertices, objs]: objs is the heap of _Vertex        *)
(* objects, a vertex reference is an index into it, and vertices is the    *)
(* HashMap from vertex data to vertex reference.  A _Vertex is             *)
(* [vertex_data, edges], an _Edge [destination_vertex, edge_data, weight]  *)
(* with destination_vertex a vertex reference.  An operation yields        *)
(* [err, g, val].                                                          *)
(***************************************************************************)
DefaultCapacity == 7

Vertex(data) == [vertex_data |-> data, edges |-> <<>>]

Edge(dst, data, w) == [destination_vertex |-> dst, edge_data |-> data, weight |-> w]

GOk(g, v) == [err |-> "none", g |-> g, val |-> v]

GRaise(e, g) == [err |-> e, g |-> g, val |-> <<>>]

NewGraph == [vertices |-> NewHashMap(DefaultCapacity, "mod"), objs |-> <<>>]

\* self._vertices[vertex_data] = _Vertex(vertex_data): a fresh object, stored
StoreNewVertex(g, data) ==
    LET r == SetItem(g.vertices, data, Len(g.objs) + 1)
    IN  IF r.err # "none" THEN GRaise(r.err, g)
        ELSE GOk([vertices |-> r.map, objs |-> Append(g.objs, Vertex(data))],
                 Len(g.objs) + 1)

GraphAddVertexKeepsExisting(g, data) ==
    IF Contains(g.vertices, data) THEN GOk(g, GetItem(g.vertices, data).val)
    ELSE StoreNewVertex(g, data)

GraphAddVertex(g, data) == StoreNewVertex(g, data)

GraphRemoveVertexCascade(g, data) ==
    LET r == DelItem(g.vertices, data)
        ref == GetItem(g.vertices, data).val
    IN  IF r.err # "none" THEN GRaise(r.err, g)
        ELSE GOk([vertices |-> r.map,
                  objs |-> [i \in 1..Len(g.objs) |->
                               [g.objs[i] EXCEPT !.edges =
                                   SelectSeq(@, LAMBDA e : e.destination_vertex # ref)]]],
                 <<>>)

GraphRemoveVertex(g, data) ==
    LET r == DelItem(g.vertices, data)
    IN  IF r.err # "none" THEN GRaise(r.err, g)
        ELSE GOk([g EXCEPT !.vertices = r.map], <<>>)

\* the vertex stored under data, created first when data is not in the map
VertexFor(g, data) ==
    IF ~Contains(g.vertices, data) THEN StoreNewVertex(g, data)
    ELSE GOk(g, GetItem(g.vertices, data).val)

GraphAddEdgeAlwaysNewSource(g, v1, v2, data, w) ==
    LET r1 == StoreNewVertex(g, v1)
        r2 == VertexFor(r1.g, v2)
    IN  GOk([r2.g EXCEPT !.objs[r1.val].edges = ListAppend(@, Edge(r2.val, data, w))],
            <<>>)

GraphAddEdgeAlwaysNewDestination(g, v1, v2, data, w) ==
    LET r1 == VertexFor(g, v1)
        r2 == StoreNewVertex(r1.g, v2)
    IN  GOk([r2.g EXCEPT !.objs[r1.val].edges = ListAppend(@, Edge(r2.val, data, w))],
            <<>>)

GraphAddEdge(g, v1, v2, data, w) ==
    LET r1 == VertexFor(g, v1)
    IN  IF r1.err # "none" THEN GRaise(r1.err, g)
        ELSE LET r2 == VertexFor(r1.g, v2)
             IN  IF r2.err # "none" THEN GRaise(r2.err, r1.g)
                 ELSE GOk([r2.g EXCEPT !.objs[r1.val].edges =
                              ListAppend(@, Edge(r2.val, data, w))], <<>>)

\* remove_edge: its first loop runs over the keys of the vertex map, which
\* are vertex data, and reads the attribute data of each; vertex data has no
\* such attribute, so the first key raises AttributeError.  With no key the
\* loop finds no vertex.  The scan of the edge list (lines 551-558) is
\* never reached.
GraphRemoveEdge(g, v1, v2, data) ==
    IF Len(HashKeys(g.vertices)) # 0 THEN GRaise("AttributeError", g)
    ELSE GRaise("ValueError: Vertex not found", g)

\* get_destination_vertex: the loop runs over the keys of the vertex map and
\* reads the attribute edges of each; the first key raises AttributeError.
GraphGetDestinationVertex(g, data) ==
    IF Len(HashKeys(g.vertices)) # 0 THEN GRaise("AttributeError", g)
    ELSE GRaise("ValueError: Edge not found", g)

\* edges_from: an Array holding the edges of the vertex, in list order
GraphEdgesFrom(g, data) ==
    IF Contains(g.vertices, data)
    THEN GOk(g, g.objs[GetItem(g.vertices, data).val].edges)
    ELSE GRaise("ValueError", g)

(***************************************************************************)
(* Graph.vertices: an Array of len(_vertices) slots filled from values().  *)
(* A slot values() does not reach stays None (vertex reference 0); a value *)
(* beyond the last slot raises IndexError.                                 *)
(***************************************************************************)
NoVertex == 0

GraphVertices(g) ==
    LET vals == HashValues(g.vertices)
        n == HashLen(g.vertices)
    IN  IF Len(vals) > n THEN GRaise("IndexError", g)
        ELSE GOk(g, [i \in 1..n |-> IF i <= Len(vals) THEN vals[i] ELSE NoVertex])

(***************************************************************************)
(* The graph under any sequence of its operations.  added is the sequence  *)
(* of add_edge calls made so far, others the number of other operations    *)
(* called, gop the last call: the operation, its argument and the          *)
(* exception it raised.                                                    *)
(***************************************************************************)
MaxGraphOps == 4

Record(s, d, l, w) == [src |-> s, dst |-> d, label |-> l, weight |-> w]

EdgeRecords ==
    {Record(0, 7, "x", 5), Record(0, 7, "y", 7), Record(7, 7, "x", 1),
     Record(1, 2, "z", 0), Record(3, 4, "x", 2), Record(4, 0, "y", 3)}

VertexData == {r.src : r \in EdgeRecords} \cup {r.dst : r \in EdgeRecords}

Labels == {r.label : r \in EdgeRecords}

VertexOpData == {0, 7}

RemovedEdges == {<<0, 7, "x">>, <<7, 7, "x">>, <<0, 7, "z">>, <<1, 0, "x">>}

GOp(op, arg, err) == [op |-> op, arg |-> arg, err |-> err]

GraphInit ==
    /\ map = NewHashMap(DefaultCapacity, "mod")
    /\ given = [threshold |-> DefaultLoadFactorThreshold]
    /\ expected = [k \in Keys |-> None]
    /\ lastOp = Op("init", "none", FALSE)
    /\ graph = NewGraph
    /\ added = <<>>
    /\ others = 0
    /\ gop = GOp("init", None, "none")
    /\ eng = <<>>
    /\ pc = "off"
    /\ origin = None
    /\ destination = None
    /\ vertex_array = <<>>
    /\ minimum_distance_vertex = None
    /\ output = <<>>
    /\ queries = 0
    /\ arr = <<>>
    /\ aop = <<>>

GraphOpsLeft == Len(added) + others < MaxGraphOps

AddEdge(r) ==
    LET res == GraphAddEdge(graph, r.src, r.dst, r.label, r.weight)
    IN  /\ GraphOpsLeft
        /\ graph' = res.g
        /\ added' = IF res.err = "none" THEN Append(added, r) ELSE added
        /\ gop' = GOp("add_edge", r, res.err)
        /\ UNCHANGED <<others, mapVars, engVars, arrayVars>>

AddVertex(data) ==
    LET res == GraphAddVertex(graph, data)
    IN  /\ GraphOpsLeft
        /\ graph' = res.g
        /\ others' = others + 1
        /\ gop' = GOp("add_vertex", data, res.err)
        /\ UNCHANGED <<added, mapVars, engVars, arrayVars>>

RemoveVertex(data) ==
    LET res == GraphRemoveVertex(graph, data)
    IN  /\ GraphOpsLeft
        /\ graph' = res.g
        /\ others' = others + 1
        /\ gop' = GOp("remove_vertex", data, res.err)
        /\ UNCHANGED <<added, mapVars, engVars, arrayVars>>

RemoveEdge(e) ==
    LET res == GraphRemoveEdge(graph, e[1], e[2], e[3])
    IN  /\ GraphOpsLeft
        /\ graph' = res.g
        /\ others' = others + 1
        /\ gop' = GOp("remove_edge", e, res.err)
        /\ UNCHANGED <<added, mapVars, engVars, arrayVars>>

GetDestinationVertex(label) ==
    LET res == GraphGetDestinationVertex(graph, label)
    IN  /\ GraphOpsLeft
        /\ graph' = res.g
        /\ others' = others + 1
        /\ gop' = GOp("get_destination_vertex", label, res.err)
        /\ UNCHANGED <<added, mapVars, engVars, arrayVars>>

Vertices ==
    LET res == GraphVertices(graph)
    IN  /\ GraphOpsLeft
        /\ graph' = res.g
        /\ others' = others + 1
        /\ gop' = GOp("vertices", None, res.err)
        /\ UNCHANGED <<added, mapVars, engVars, arrayVars>>

GraphNext ==
    \/ \E r \in EdgeRecords : AddEdge(r)
    \/ \E d \in VertexOpData : AddVertex(d)
    \/ \E d \in VertexOpData : RemoveVertex(d)
    \/ \E e \in RemovedEdges : RemoveEdge(e)
    \/ \E l \in Labels : GetDestinationVertex(l)
    \/ Vertices

(***************************************************************************)
(* ListStack: a LinkedList and the item on top (None when empty).          *)
(***************************************************************************)
NewStack == [items |-> <<>>, top |-> None]

StackPush(s, item) == [items |-> ListAppend(s.items, item), top |-> item]

StackEmpty(s) == s.top = None

\* pop of a non-empty stack: the item on top and the stack left
StackPop(s) ==
    LET rest == SubSeq(s.items, 1, Len(s.items) - 1)
    IN  [item  |-> s.top,
         stack |-> [items |-> rest,
                    top |-> IF Len(rest) = 0 THEN None ELSE rest[Len(rest)]]]

(***************************************************************************)
(* Dijkstra.  The engine is [airports, dist, pred, stack]: three HashMaps  *)
(* (_airports, _distances_from_origin, _route_connections) and the         *)
(* ListStack _shortest_route.  An airport is its vertex data, and so is    *)
(* its code.                                                               *)
(***************************************************************************)
Unreached == -1

RECURSIVE SetAll(_, _, _, _)
SetAll(m, keys, i, value) ==
    IF i > Len(keys) THEN m
    ELSE SetAll(SetItem(m, keys[i], value).map, keys, i + 1, value)

RECURSIVE SetEach(_, _, _)
SetEach(m, keys, i) ==
    IF i > Len(keys) THEN m
    ELSE SetEach(SetItem(m, keys[i], keys[i]).map, keys, i + 1)

NewDijkstra(g) ==
    LET refs == GraphVertices(g).val
        data == [i \in 1..Len(refs) |-> g.objs[refs[i]].vertex_data]
    IN  [airports |-> SetEach(NewHashMap(DefaultCapacity, "mod"), data, 1),
         dist     |-> SetAll(NewHashMap(DefaultCapacity, "mod"), data, 1, Unreached),
         pred     |-> SetAll(NewHashMap(DefaultCapacity, "mod"), data, 1, None),
         stack    |-> NewStack]

Dist(e, v) == GetItem(e.dist, v).val

Pred(e, v) == GetItem(e.pred, v).val

\* the start of find_shortest_paths: the origin at distance 0 with no
\* predecessor, every other airport unreached
RECURSIVE ResetOthers(_, _, _, _)
ResetOthers(m, vertices, i, o) ==
    IF i > Len(vertices) THEN m
    ELSE ResetOthers(IF vertices[i] # o THEN SetItem(m, vertices[i], Unreached).map ELSE m,
                     vertices, i + 1, o)

StartSearch(e, o) ==
    [e EXCEPT !.pred = SetItem(e.pred, o, None).map,
              !.dist = ResetOthers(SetItem(e.dist, o, 0).map, HashValues(e.airports), 1, o)]

\* a scan in which a vertex as near replaces the one held
RECURSIVE MinimumFromLast(_, _, _, _)
MinimumFromLast(e, array, i, best) ==
    IF i > Len(array) THEN best
    ELSE LET v == array[i]
         IN  MinimumFromLast(e, array, i + 1,
                 IF Dist(e, v) > Unreached
                 THEN IF best = None THEN v
                      ELSE IF Dist(e, v) <= Dist(e, best) THEN v ELSE best
                 ELSE best)

\* the scan for the vertex of minimum distance: the first reached vertex,
\* replaced only by a strictly nearer one
RECURSIVE MinimumFrom(_, _, _, _)
MinimumFrom(e, array, i, best) ==
    IF i > Len(array) THEN best
    ELSE LET v == array[i]
         IN  MinimumFrom(e, array, i + 1,
                 IF Dist(e, v) > Unreached
                 THEN IF best = None THEN v
                      ELSE IF Dist(e, v) < Dist(e, best) THEN v ELSE best
                 ELSE best)

MinimumDistanceVertex(e, array) == MinimumFrom(e, array, 1, None)

\* a deletion that leaves the array as it is
ArrayDeleteKeepsAll(array, v) == array

\* del vertex_array[i] for the first i holding the vertex
ArrayDelete(array, v) ==
    IF \E i \in 1..Len(array) : array[i] = v THEN ListExtract(array, v) ELSE array

RelaxRouteOnlyUnreached(e, g, u, route) ==
    LET path == Dist(e, u) + route.weight
        d == g.objs[route.destination_vertex].vertex_data
    IN  IF Dist(e, d) = Unreached
        THEN [e EXCEPT !.dist = SetItem(e.dist, d, path).map,
                       !.pred = SetItem(e.pred, d, u).map]
        ELSE e

\* a relaxation without the comparison of line 877
RelaxRouteAlways(e, g, u, route) ==
    LET path == Dist(e, u) + route.weight
        d == g.objs[route.destination_vertex].vertex_data
    IN  [e EXCEPT !.dist = SetItem(e.dist, d, path).map,
                  !.pred = SetItem(e.pred, d, u).map]

\* a relaxation with the comparison of line 877 turned round
RelaxRouteUnlessNearer(e, g, u, route) ==
    LET path == Dist(e, u) + route.weight
        d == g.objs[route.destination_vertex].vertex_data
    IN  IF Dist(e, d) = Unreached \/ path > Dist(e, d)
        THEN [e EXCEPT !.dist = SetItem(e.dist, d, path).map,
                       !.pred = SetItem(e.pred, d, u).map]
        ELSE e

\* a relaxation that records the predecessor of a vertex only once
RelaxRouteKeepsPred(e, g, u, route) ==
    LET path == Dist(e, u) + route.weight
        d == g.objs[route.destination_vertex].vertex_data
    IN  IF Dist(e, d) = Unreached
        THEN [e EXCEPT !.dist = SetItem(e.dist, d, path).map,
                       !.pred = SetItem(e.pred, d, u).map]
        ELSE IF path < Dist(e, d)
        THEN [e EXCEPT !.dist = SetItem(e.dist, d, path).map]
        ELSE e

RelaxRoute(e, g, u, route) ==
    LET path == Dist(e, u) + route.weight
        d == g.objs[route.destination_vertex].vertex_data
    IN  IF Dist(e, d) = Unreached \/ path < Dist(e, d)
        THEN [e EXCEPT !.dist = SetItem(e.dist, d, path).map,
                       !.pred = SetItem(e.pred, d, u).map]
        ELSE e

RECURSIVE RelaxAll(_, _, _, _, _)
RelaxAll(e, g, u, routes, i) ==
    IF i > Len(routes) THEN e
    ELSE RelaxAll(RelaxRoute(e, g, u, routes[i]), g, u, routes, i + 1)

\* the walk back from the destination: push the vertex, stop with no route at
\* a vertex without predecessor, else go on from the predecessor.  The walk
\* is cut after fuel steps: a walk that long never ends.
RECURSIVE WalkBack(_, _, _, _, _)
WalkBack(e, vertex, o, stack, fuel) ==
    IF vertex = o THEN [stack |-> stack, outcome |-> "route"]
    ELSE IF fuel = 0 THEN [stack |-> stack, outcome |-> "loops"]
    ELSE IF GetItem(e.pred, vertex).err # "none"
         THEN [stack |-> StackPush(stack, vertex), outcome |-> GetItem(e.pred, vertex).err]
    ELSE IF Pred(e, vertex) = None
         THEN [stack |-> StackPush(stack, vertex), outcome |-> "no route"]
    ELSE WalkBack(e, Pred(e, vertex), o, StackPush(stack, vertex), fuel - 1)

\* the airports printed while the stack is emptied
RECURSIVE PopAll(_)
PopAll(stack) ==
    IF StackEmpty(stack) THEN <<>>
    ELSE <<StackPop(stack).item>> \o PopAll(StackPop(stack).stack)

Printed(outcome, route, total) == [outcome |-> outcome, route |-> route, total |-> total]

ReconstructReportsPartial(e, o, d) ==
    LET w == WalkBack(e, d, o, e.stack, Len(HashKeys(e.airports)) + 1)
    IN  [eng |-> [e EXCEPT !.stack = NewStack],
         out |-> Printed("route", <<o>> \o PopAll(w.stack), Dist(e, d))]

Reconstruct(e, o, d) ==
    LET w == WalkBack(e, d, o, e.stack, Len(HashKeys(e.airports)) + 1)
    IN  IF w.outcome = "route"
        THEN [eng |-> [e EXCEPT !.stack = NewStack],
              out |-> Printed("route", <<o>> \o PopAll(w.stack), Dist(e, d))]
        ELSE [eng |-> [e EXCEPT !.stack = w.stack],
              out |-> Printed(w.outcome, <<>>, None)]

(***************************************************************************)
(* A session of run(): the graph is built from a selection of the rows,    *)
(* the engine is constructed over it, and queries follow one another while *)
(* the user answers yes.                                                   *)
(***************************************************************************)
MaxQueries == 2

DijkstraRows ==
    <<Record(0, 1, "a", 1), Record(1, 2, "b", 2), Record(0, 2, "c", 4),
      Record(0, 2, "d", 3), Record(2, 0, "e", 0), Record(7, 1, "f", 1),
      Record(2, 7, "g", 1)>>

RECURSIVE Selected(_, _, _)
Selected(rows, chosen, i) ==
    IF i > Len(rows) THEN <<>>
    ELSE (IF i \in chosen THEN <<rows[i]>> ELSE <<>>) \o Selected(rows, chosen, i + 1)

RECURSIVE BuildGraph(_, _, _)
BuildGraph(g, rows, i) ==
    IF i > Len(rows) THEN g
    ELSE BuildGraph(GraphAddEdge(g, rows[i].src, rows[i].dst, rows[i].label,
                                 rows[i].weight).g, rows, i + 1)

DijkstraInit ==
    /\ map = NewHashMap(DefaultCapacity, "mod")
    /\ given = [threshold |-> DefaultLoadFactorThreshold]
    /\ expected = [k \in Keys |-> None]
    /\ lastOp = Op("init", "none", FALSE)
    /\ \E chosen \in (SUBSET (1..Len(DijkstraRows))) \ {{}} :
          /\ added = Selected(DijkstraRows, chosen, 1)
          /\ graph = BuildGraph(NewGraph, added, 1)
    /\ others = 0
    /\ gop = GOp("init", None, "none")
    /\ eng = NewDijkstra(graph)
    /\ pc = "ask"
    /\ origin = None
    /\ destination = None
    /\ vertex_array = <<>>
    /\ minimum_distance_vertex = None
    /\ output = Printed("none", <<>>, None)
    /\ queries = 0
    /\ arr = <<>>
    /\ aop = <<>>

\* ask_origin_airport, ask_destination_airport: two codes of _airports
Ask(o, d) ==
    /\ pc = "ask"
    /\ queries < MaxQueries
    /\ Contains(eng.airports, o)
    /\ Contains(eng.airports, d)
    /\ origin' = GetItem(eng.airports, o).val
    /\ destination' = GetItem(eng.airports, d).val
    /\ output' = Printed("none", <<>>, None)
    /\ pc' = "start"
    /\ UNCHANGED <<eng, vertex_array, minimum_distance_vertex, queries,
                   mapVars, graphVars, arrayVars>>

\* find_shortest_paths up to its while loop
FindStart ==
    /\ pc = "start"
    /\ eng' = StartSearch(eng, origin)
    /\ vertex_array' = HashValues(eng.airports)
    /\ minimum_distance_vertex' = None
    /\ pc' = "loop"
    /\ UNCHANGED <<origin, destination, output, queries, mapVars, graphVars, arrayVars>>

\* one iteration of the while loop that finalizes a vertex
FindIterate ==
    LET u == MinimumDistanceVertex(eng, vertex_array)
    IN  /\ pc = "loop"
        /\ Len(vertex_array) # 0
        /\ u # None
        /\ minimum_distance_vertex' = u
        /\ vertex_array' = ArrayDelete(vertex_array, u)
        /\ eng' = RelaxAll(eng, graph, u, GraphEdgesFrom(graph, u).val, 1)
        /\ UNCHANGED <<pc, origin, destination, output, queries, mapVars, graphVars, arrayVars>>

\* the end of the while loop: the array is empty, or no vertex left in it is
\* reached; the locals of find_shortest_paths are gone when it returns
FindEnd ==
    /\ pc = "loop"
    /\ Len(vertex_array) = 0 \/ MinimumDistanceVertex(eng, vertex_array) = None
    /\ minimum_distance_vertex' = None
    /\ pc' = "found"
    /\ UNCHANGED <<eng, vertex_array, origin, destination, output, queries,
                   mapVars, graphVars, arrayVars>>

\* the rest of run(): the walk back, the printed route, the question
Report ==
    LET r == Reconstruct(eng, origin, destination)
    IN  /\ pc = "found"
        /\ eng' = r.eng
        /\ output' = r.out
        /\ queries' = queries + 1
        /\ pc' = "ask"
        /\ UNCHANGED <<vertex_array, minimum_distance_vertex, origin, destination,
                       mapVars, graphVars, arrayVars>>

\* the user answers no
Quit ==
    /\ pc = "ask"
    /\ queries > 0
    /\ pc' = "done"
    /\ UNCHANGED <<eng, vertex_array, minimum_distance_vertex, origin, destination,
                   output, queries,
                   mapVars, graphVars, arrayVars>>

DijkstraNext ==
    \/ \E o \in VertexData, d \in VertexData : Ask(o, d)
    \/ FindStart
    \/ FindIterate
    \/ FindEnd
    \/ Report
    \/ Quit

(***************************************************************************)
(* Array.  An array is [items, physical_size, logical_size,                *)
(* default_item_value]: items is the numpy array, len() the logical size.  *)
(* An operation yields [err, a, val].                                      *)
(***************************************************************************)
AOk(a, v) == [err |-> "none", a |-> a, val |-> v]

ARaise(e, a) == [err |-> e, a |-> a, val |-> None]

NewArray(size, default_item_value) ==
    [items |-> ArrayOf(size, default_item_value),
     physical_size |-> size,
     logical_size |-> size,
     default_item_value |-> default_item_value]

ArrayLen(a) == a.logical_size

\* the bound tested is the length of items, not the logical size
ArrayGetItem(a, index) ==
    IF index < 0 \/ index >= Len(a.items) THEN ARaise("IndexError", a)
    ELSE AOk(a, a.items[index + 1])

ArraySetItem(a, index, data) ==
    IF index < 0 \/ index >= Len(a.items) THEN ARaise("IndexError", a)
    ELSE AOk([a EXCEPT !.items[index + 1] = data], None)

\* append: the physical size doubles when the array is full; the items are
\* copied to a new numpy array of that size and data is stored at index
\* len(items), which numpy refuses with IndexError when it is past the end
ArrayAppend(a, data) ==
    LET new_physical_size == IF a.logical_size = a.physical_size
                             THEN a.physical_size * 2 ELSE a.physical_size
    IN  IF Len(a.items) >= new_physical_size THEN ARaise("IndexError", a)
        ELSE AOk([a EXCEPT !.items = [i \in 1..new_physical_size |->
                                         IF i <= Len(a.items) THEN a.items[i]
                                         ELSE IF i = Len(a.items) + 1 THEN data
                                         ELSE a.default_item_value],
                           !.physical_size = new_physical_size,
                           !.logical_size = @ + 1], None)

ArrayDelItem(a, index) ==
    IF ~(0 <= index /\ index < ArrayLen(a)) THEN ARaise("IndexError", a)
    ELSE IF index >= Len(a.items) THEN ARaise("IndexError", a)
    ELSE AOk([a EXCEPT !.items = SubSeq(@, 1, index) \o SubSeq(@, index + 2, Len(@)),
                       !.logical_size = @ - 1], None)

ArrayClear(a) ==
    [a EXCEPT !.items = ArrayOf(a.physical_size, a.default_item_value),
              !.logical_size = 0]

(***************************************************************************)
(* The array under any sequence of append, delete, clear, get and set,     *)
(* from its construction with a size.  aop is the last call: the           *)
(* operation and the exception it raised.                                  *)
(***************************************************************************)
MaxArraySize == 4

ArraySizes == 0..2

Indices == (0 - 1)..MaxArraySize

AOp(op, err) == [op |-> op, err |-> err]

ArrayInit ==
    /\ map = NewHashMap(DefaultCapacity, "mod")
    /\ given = [threshold |-> DefaultLoadFactorThreshold]
    /\ expected = [k \in Keys |-> None]
    /\ lastOp = Op("init", "none", FALSE)
    /\ graph = NewGraph
    /\ added = <<>>
    /\ others = 0
    /\ gop = GOp("init", None, "none")
    /\ eng = <<>>
    /\ pc = "off"
    /\ origin = None
    /\ destination = None
    /\ vertex_array = <<>>
    /\ minimum_distance_vertex = None
    /\ output = <<>>
    /\ queries = 0
    /\ \E size \in ArraySizes : arr = NewArray(size, None)
    /\ aop = AOp("init", "none")

ArrAppend(data) ==
    LET r == ArrayAppend(arr, data)
    IN  /\ r.a.physical_size <= MaxArraySize
        /\ arr' = r.a
        /\ aop' = AOp("append", r.err)
        /\ UNCHANGED <<mapVars, graphVars, engVars>>

ArrDelete(index) ==
    LET r == ArrayDelItem(arr, index)
    IN  /\ arr' = r.a
        /\ aop' = AOp("del", r.err)
        /\ UNCHANGED <<mapVars, graphVars, engVars>>

ArrClear ==
    /\ arr' = ArrayClear(arr)
    /\ aop' = AOp("clear", "none")
    /\ UNCHANGED <<mapVars, graphVars, engVars>>

ArrGet(index) ==
    LET r == ArrayGetItem(arr, index)
    IN  /\ arr' = r.a
        /\ aop' = AOp("get", r.err)
        /\ UNCHANGED <<mapVars, graphVars, engVars>>

ArrSet(index, data) ==
    LET r == ArraySetItem(arr, index, data)
    IN  /\ arr' = r.a
        /\ aop' = AOp("set", r.err)
        /\ UNCHANGED <<mapVars, graphVars, engVars>>

ArrayNext ==
    \/ \E v \in Vals : ArrAppend(v)
    \/ \E i \in Indices : ArrDelete(i)
    \/ ArrClear
    \/ \E i \in Indices : ArrGet(i)
    \/ \E i \in Indices, v \in Vals : ArrSet(i, v)

(***************************************************************************)
(* The specifications: each exercises one component and leaves the state   *)
(* of the others as constructed.                                           *)
(***************************************************************************)
SpecMap == MapInit /\ [][MapNext]_vars

SpecConstruct == ConstructInit /\ [][ConstructNext]_vars

SpecGraph == GraphInit /\ [][GraphNext]_vars

SpecDijkstra == DijkstraInit /\ [][DijkstraNext]_vars

SpecArray == ArrayInit /\ [][ArrayNext]_vars

\* the conditions under which the steps of find_shortest_paths can be taken
FindStartEnabled == pc = "start"

FindIterateEnabled ==
    /\ pc = "loop"
    /\ Len(vertex_array) # 0
    /\ MinimumDistanceVertex(eng, vertex_array) # None

\* find_shortest_paths runs on once called: each of its steps is taken when
\* it can be.  This is weak fairness of the three steps, WF_vars(FindStart)
\* and WF_vars(FindIterate) written out with the guard of the step as its
\* enabling condition.
SpecDijkstraFair ==
    /\ SpecDijkstra
    /\ ([]<>(~FindStartEnabled) \/ []<><<FindStart>>_vars)
    /\ ([]<>(~FindIterateEnabled) \/ []<><<FindIterate>>_vars)
    /\ WF_vars(FindEnd)

(***************************************************************************)
(* Properties of the hash map.                                             *)
(***************************************************************************)
ResizingSet(op) == op.op = "set" /\ op.resized /\ op.err = "none"

ChainCollision(m) == \E b \in 1..Capacity(m) : Len(m.buckets[b]) >= 2

\* C1: after any sequence of set and delete, len() equals the number of
\* distinct keys present in the map.
C1_LenCountsKeys == HashLen(map) = Cardinality(KeysPresent(map))

\* C2: after set(k, v), get(k) returns v whatever is set or deleted on other
\* keys (colliding keys and resizes included) until k is overwritten or
\* deleted.
C2_GetReturnsLastSet ==
    \A k \in Keys :
        expected[k] # None =>
            GetItem(map, k).err = "none" /\ GetItem(map, k).val = expected[k]

\* a set that resized while other keys were stored, with a collision in a chain
C2_Witness ==
    /\ ResizingSet(lastOp)
    /\ ChainCollision(map)
    /\ Cardinality({k \in Keys : expected[k] # None}) >= 2
    /\ \E k \in Keys : expected[k] = None

\* C6: a set that triggers the automatic resize keeps every key stored before
\* it, once each, with the value it had (the key being set takes its new
\* value, and is the only key that may be new).
C6_ResizePreservesContent ==
    [][ResizingSet(lastOp') =>
          \E key \in Keys :
              /\ KeysPresent(map') = KeysPresent(map) \cup {key}
              /\ \A k \in KeysPresent(map) :
                    /\ Occurrences(map', k) = 1
                    /\ k # key =>
                          /\ GetItem(map', k).err = "none"
                          /\ GetItem(map', k).val = GetItem(map, k).val]_vars

\* a resizing set has happened on a map that held three other keys
C6_Witness ==
    /\ ResizingSet(lastOp)
    /\ Cardinality(KeysPresent(map)) >= 4

C8_AbsentKeyRaisesKeyError ==
    \A k \in Keys :
        Occurrences(map, k) = 0 =>
            /\ GetItem(map, k).err = "KeyError"
            /\ DelItem(map, k).err = "KeyError"
            /\ GetItem(map, k).map = map
            /\ DelItem(map, k).map = map

\* C9: every stored key occurs in exactly one pair, and that pair lies in the
\* bucket the current hash function gives the key under the current capacity.
C9_OnePairInItsBucket ==
    \A k \in KeysPresent(map) :
        /\ Occurrences(map, k) = 1
        /\ \A b \in 1..Capacity(map) :
              ChainHasKey(map.buckets[b], k) =>
                  b = default_hash_function(map.hash, k, Capacity(map)) + 1

\* an explicit rehash to another hash function has moved several colliding keys
C9_Witness ==
    /\ lastOp.op = "rehash"
    /\ lastOp.err = "none"
    /\ map.hash = "half"
    /\ ChainCollision(map)
    /\ Cardinality(KeysPresent(map)) >= 3

\* C19: a map constructed with threshold t (0 <= t <= 1) resizes on a set
\* exactly when count / capacity before the insertion exceeds t.  A resize
\* always changes the capacity.
C19_GivenThresholdGoverns ==
    [][(lastOp'.op = "set" /\ lastOp'.err = "none" /\ given.threshold \in 0..10) =>
          ((Capacity(map') # Capacity(map))
              <=> HashLen(map) * 10 > given.threshold * Capacity(map))]_vars

\* C20: construction with a negative capacity, or a threshold below 0 or
\* above 1, raises ValueError, so that every map constructed can evaluate its
\* capacity.
C20_InvalidConstructionRejected ==
    lastOp.op = "init" =>
        /\ (map.size < 0 \/ given.threshold < 0 \/ given.threshold > 10) =>
               lastOp.err = "ValueError"
        /\ lastOp.err = "none" => ~CapacityRaises(map)

\* C23: resize_and_rehash(n, f) leaves the map with capacity n and hash
\* function f, every key it held retrievable with the value it had; a set
\* that resizes keeps the hash function of the map.
C23_RehashSetsCapacityAndHash ==
    /\ \A n \in RehashSizes, h \in HashFunctions :
          LET r == ResizeAndRehash(map, n, h)
          IN  /\ r.err = "none"
              /\ Capacity(r.map) = n
              /\ r.map.hash = h
              /\ \A k \in KeysPresent(map) :
                    /\ GetItem(r.map, k).err = "none"
                    /\ GetItem(r.map, k).val = GetItem(map, k).val
    /\ \A k \in Keys, v \in Vals :
          (Capacity(map) # 0 /\ LoadFactorExceeded(map)) =>
              SetItem(map, k, v).map.hash = map.hash

(***************************************************************************)
(* Properties of the graph.                                                *)
(***************************************************************************)
\* an edge as the caller sees it: destination data, label and weight
EdgeView(g, e) ==
    [dst |-> g.objs[e.destination_vertex].vertex_data,
     label |-> e.edge_data, weight |-> e.weight]

EdgeViews(g, edges) == [i \in 1..Len(edges) |-> EdgeView(g, edges[i])]

RecordView(r) == [dst |-> r.dst, label |-> r.label, weight |-> r.weight]

RECURSIVE AddedFrom(_, _)
AddedFrom(records, s) ==
    IF records = <<>> THEN <<>>
    ELSE (IF Head(records).src = s THEN <<RecordView(Head(records))>> ELSE <<>>)
         \o AddedFrom(Tail(records), s)

Mentioned(records, d) ==
    \E i \in 1..Len(records) : records[i].src = d \/ records[i].dst = d

\* C10: after add_edge calls alone, edges_from(s) is the sequence of the edges
\* added with source s, each with its destination, label and weight, in the
\* order of the calls; every destination is the graph's vertex of that data.
C10_EdgesFromRecoversAdded ==
    others = 0 =>
        \A s \in VertexData :
            LET r == GraphEdgesFrom(graph, s)
            IN  IF Mentioned(added, s)
                THEN /\ r.err = "none"
                     /\ EdgeViews(graph, r.val) = AddedFrom(added, s)
                     /\ \A i \in 1..Len(r.val) :
                           GetItem(graph.vertices, EdgeView(graph, r.val[i]).dst).val
                               = r.val[i].destination_vertex
                ELSE r.err = "ValueError"

\* parallel edges and a self-loop were added and the vertex map has resized
C10_Witness ==
    /\ others = 0
    /\ Capacity(graph.vertices) > DefaultCapacity
    /\ Len(GraphEdgesFrom(graph, 0).val) >= 2
    /\ Len(added) = MaxGraphOps

\* the graph holds an edge from vertex s to vertex d with label l
HoldsEdge(g, s, d, l) ==
    /\ Contains(g.vertices, s)
    /\ Contains(g.vertices, d)
    /\ \E i \in 1..Len(GraphEdgesFrom(g, s).val) :
          /\ EdgeView(g, GraphEdgesFrom(g, s).val[i]).dst = d
          /\ GraphEdgesFrom(g, s).val[i].edge_data = l

WithoutOne(list, i) == SubSeq(list, 1, i - 1) \o SubSeq(list, i + 1, Len(list))

\* the edge lists of every vertex other than those in skip are the same in h
\* as in g, with the same destinations
OtherEdgesKept(g, h, skip) ==
    \A k \in KeysPresent(g.vertices) \ skip :
        /\ GraphEdgesFrom(h, k).err = "none"
        /\ GraphEdgesFrom(h, k).val = GraphEdgesFrom(g, k).val
        /\ EdgeViews(h, GraphEdgesFrom(h, k).val) = EdgeViews(g, GraphEdgesFrom(g, k).val)

\* C11: remove_edge(src, dst, label) on a graph holding such an edge succeeds,
\* takes that one edge out of edges_from(src), keeps the other edges of src in
\* their order, and changes the edges of no other vertex.
C11_RemoveEdgeRemovesThatEdge ==
    \A e \in RemovedEdges :
        HoldsEdge(graph, e[1], e[2], e[3]) =>
            LET res == GraphRemoveEdge(graph, e[1], e[2], e[3])
                before == GraphEdgesFrom(graph, e[1]).val
                after == GraphEdgesFrom(res.g, e[1]).val
            IN  /\ res.err = "none"
                /\ \E i \in 1..Len(before) :
                      /\ EdgeView(graph, before[i]).dst = e[2]
                      /\ before[i].edge_data = e[3]
                      /\ after = WithoutOne(before, i)
                /\ OtherEdgesKept(graph, res.g, {e[1]})

\* C12: remove_edge fails with "Vertex not found" when src or dst is no vertex
\* of the graph, with "Edge not found" when both are and src has no such edge
\* to dst, with no other exception, and a failure leaves the graph as it was.
C12_RemoveEdgeErrors ==
    \A s \in VertexData, d \in VertexData, l \in Labels :
        LET res == GraphRemoveEdge(graph, s, d, l)
        IN  /\ (~Contains(graph.vertices, s) \/ ~Contains(graph.vertices, d)) =>
                   res.err = "ValueError: Vertex not found"
            /\ (Contains(graph.vertices, s) /\ Contains(graph.vertices, d)
                  /\ ~HoldsEdge(graph, s, d, l)) =>
                   res.err = "ValueError: Edge not found"
            /\ res.err # "none" => res.g = graph

\* C13: vertices returns one entry per vertex of the graph, each of them a
\* vertex (no empty slot, no removed vertex), in the order the vertex map
\* iterates.
C13_VerticesListsEachVertex ==
    LET res == GraphVertices(graph)
    IN  /\ res.err = "none"
        /\ res.val = HashValues(graph.vertices)
        /\ Len(res.val) = Cardinality(KeysPresent(graph.vertices))
        /\ \A i \in 1..Len(res.val) : res.val[i] # NoVertex

\* C14: add_vertex(data) never fails and leaves exactly one vertex of that
\* data, a fresh one without edges, also when a vertex of that data existed;
\* the edges of the other vertices, those to the old vertex included, stay as
\* they were.
C14_AddVertexReplaces ==
    [][gop'.op = "add_vertex" =>
          LET d == gop'.arg
          IN  /\ gop'.err = "none"
              /\ KeysPresent(graph'.vertices) = KeysPresent(graph.vertices) \cup {d}
              /\ Occurrences(graph'.vertices, d) = 1
              /\ GetItem(graph'.vertices, d).val > Len(graph.objs)
              /\ GraphEdgesFrom(graph', d).err = "none"
              /\ GraphEdgesFrom(graph', d).val = <<>>
              /\ OtherEdgesKept(graph, graph', {d})]_vars

\* add_vertex(7) has replaced a vertex that had an edge of its own and is the
\* destination of an edge of vertex 0
C14_Witness ==
    /\ gop.op = "add_vertex"
    /\ gop.arg = 7
    /\ Contains(graph.vertices, 0)
    /\ \E i \in 1..Len(GraphEdgesFrom(graph, 0).val) :
          LET e == GraphEdgesFrom(graph, 0).val[i]
          IN  /\ EdgeView(graph, e).dst = 7
              /\ e.destination_vertex # GetItem(graph.vertices, 7).val
              /\ graph.objs[e.destination_vertex].edges # <<>>

\* C15: remove_vertex(data) of data that is no vertex of the graph fails with
\* the graph's ValueError, not the map's KeyError, and leaves the graph as it
\* was.
C15_RemoveAbsentVertexRaisesValueError ==
    \A d \in VertexData :
        ~Contains(graph.vertices, d) =>
            /\ GraphRemoveVertex(graph, d).err = "ValueError"
            /\ GraphRemoveVertex(graph, d).g = graph

\* C16: remove_vertex(data) of a vertex of the graph removes that vertex alone:
\* the edges of every other vertex stay, those to the removed vertex included,
\* and edges_from(data) then fails with ValueError.
C16_RemoveVertexNoCascade ==
    [][(gop'.op = "remove_vertex" /\ Contains(graph.vertices, gop'.arg)) =>
          LET d == gop'.arg
          IN  /\ gop'.err = "none"
              /\ KeysPresent(graph'.vertices) = KeysPresent(graph.vertices) \ {d}
              /\ GraphEdgesFrom(graph', d).err = "ValueError"
              /\ OtherEdgesKept(graph, graph', {d})]_vars

\* vertex 7 has been removed while vertex 0 holds an edge to it
C16_Witness ==
    /\ gop.op = "remove_vertex"
    /\ gop.err = "none"
    /\ gop.arg = 7
    /\ ~Contains(graph.vertices, 7)
    /\ Contains(graph.vertices, 0)
    /\ \E i \in 1..Len(GraphEdgesFrom(graph, 0).val) :
          EdgeView(graph, GraphEdgesFrom(graph, 0).val[i]).dst = 7

\* C17: add_edge(src, dst, label, w) creates a vertex for each of src and dst
\* that is absent and replaces none: every vertex keeps its edges, the edge
\* list of src grows by the new edge at its end, and a self-loop creates at
\* most one vertex.
C17_AddEdgeKeepsVertices ==
    [][gop'.op = "add_edge" =>
          LET r == gop'.arg
              absent == {k \in {r.src, r.dst} : ~Contains(graph.vertices, k)}
              before == IF Contains(graph.vertices, r.src)
                        THEN GraphEdgesFrom(graph, r.src).val ELSE <<>>
              after == GraphEdgesFrom(graph', r.src).val
          IN  /\ gop'.err = "none"
              /\ Len(graph'.objs) = Len(graph.objs) + Cardinality(absent)
              /\ KeysPresent(graph'.vertices) =
                     KeysPresent(graph.vertices) \cup {r.src, r.dst}
              /\ \A k \in KeysPresent(graph.vertices) :
                     GetItem(graph'.vertices, k).val = GetItem(graph.vertices, k).val
              /\ Len(after) = Len(before) + 1
              /\ SubSeq(after, 1, Len(before)) = before
              /\ EdgeView(graph', after[Len(after)]) = RecordView(r)
              /\ after[Len(after)].destination_vertex = GetItem(graph'.vertices, r.dst).val
              /\ OtherEdgesKept(graph, graph', {r.src})
              /\ r.dst \in absent /\ r.dst # r.src =>
                     GraphEdgesFrom(graph', r.dst).val = <<>>]_vars

\* a self-loop has been added to a vertex that had an edge, and the graph
\* holds one vertex object
C17_Witness ==
    /\ gop.op = "add_edge"
    /\ gop.arg.src = gop.arg.dst
    /\ Len(GraphEdgesFrom(graph, gop.arg.src).val) >= 2
    /\ Len(graph.objs) = 1

\* the edges of the graph in the order a scan of the vertices meets them
RECURSIVE EdgesOf(_, _, _)
EdgesOf(g, refs, i) ==
    IF i > Len(refs) THEN <<>>
    ELSE g.objs[refs[i]].edges \o EdgesOf(g, refs, i + 1)

AllEdges(g) == EdgesOf(g, HashValues(g.vertices), 1)

FirstWithLabel(g, l) ==
    LET all == AllEdges(g)
        i == CHOOSE j \in 1..Len(all) :
                 all[j].edge_data = l /\ \A h \in 1..(j - 1) : all[h].edge_data # l
    IN  all[i]

\* C18: on a graph with vertices, get_destination_vertex(label) returns the
\* destination data of the first edge with that label met while scanning the
\* edge lists of the vertices, and fails with "Edge not found", and with no
\* other exception, when no edge has the label.
C18_DestinationOfFirstEdge ==
    \A l \in Labels :
        Len(HashKeys(graph.vertices)) # 0 =>
            LET res == GraphGetDestinationVertex(graph, l)
            IN  IF \E i \in 1..Len(AllEdges(graph)) : AllEdges(graph)[i].edge_data = l
                THEN /\ res.err = "none"
                     /\ res.val = EdgeView(graph, FirstWithLabel(graph, l)).dst
                ELSE res.err = "ValueError: Edge not found"

(***************************************************************************)
(* Properties of the shortest-path engine.  The distances the graph        *)
(* defines are computed apart from the engine, by rounds of relaxation     *)
(* over all the edges (Bellman-Ford); Unreached stands for no path.        *)
(***************************************************************************)
GraphKeys(g) == KeysPresent(g.vertices)

\* the weights of the edges from u to v
Weights(g, u, v) ==
    LET edges == GraphEdgesFrom(g, u).val
    IN  {edges[i].weight : i \in {j \in 1..Len(edges) :
                                     g.objs[edges[j].destination_vertex].vertex_data = v}}

Least(S) == CHOOSE x \in S : \A y \in S : x <= y

\* the edges of the graph as <<source, destination, weight>>
EdgeTriples(g) ==
    UNION {{<<u, v, w>> : w \in Weights(g, u, v)} : u \in GraphKeys(g), v \in GraphKeys(g)}

Round(V, E, D) ==
    [v \in V |->
        LET cand == (IF D[v] # Unreached THEN {D[v]} ELSE {})
                    \cup {D[t[1]] + t[3] : t \in {x \in E : x[2] = v /\ D[x[1]] # Unreached}}
        IN  IF cand = {} THEN Unreached ELSE Least(cand)]

RECURSIVE Rounds(_, _, _, _)
Rounds(V, E, D, n) == IF n = 0 THEN D ELSE Rounds(V, E, Round(V, E, D), n - 1)

ShortestFrom(g, o) ==
    LET V == GraphKeys(g)
        E == EdgeTriples(g)
    IN  Rounds(V, E, [v \in V |-> IF v = o THEN 0 ELSE Unreached], Cardinality(V))

Reachable(g, o, d) == ShortestFrom(g, o)[d] # Unreached

\* the total weights of the walks along a sequence of vertices
RECURSIVE WalkWeights(_, _)
WalkWeights(g, route) ==
    IF Len(route) <= 1 THEN {0}
    ELSE {w + rest : w \in Weights(g, route[1], route[2]),
                     rest \in WalkWeights(g, Tail(route))}

Answered == pc \in {"ask", "done"} /\ queries > 0

\* C3: when find_shortest_paths returns, the distance of every vertex is the
\* weight of a minimum-weight path from the origin, 0 for the origin and the
\* sentinel -1 for a vertex no path reaches.
C3_DistancesAreShortest ==
    pc = "found" =>
        LET shortest == ShortestFrom(graph, origin)
        IN  /\ Dist(eng, origin) = 0
            /\ \A v \in GraphKeys(graph) : Dist(eng, v) = shortest[v]

\* a later query of a session on a graph with parallel edges and a cycle: the
\* two-edge path beats the direct edge, and a vertex is out of reach
C3_Witness ==
    /\ pc = "found"
    /\ queries >= 1
    /\ origin = 0
    /\ Len(added) >= 6
    /\ Dist(eng, 2) = 3
    /\ 4 \in Weights(graph, 0, 2)
    /\ Weights(graph, 2, 0) # {}
    /\ Dist(eng, 7) = Unreached

\* C4: for a reachable destination the vertices printed are a path from the
\* origin to the destination along edges of the graph, and the total printed is
\* distance[destination], the weight of that path.
C4_RouteIsPath ==
    (Answered /\ Reachable(graph, origin, destination)) =>
        /\ output.outcome = "route"
        /\ output.route[1] = origin
        /\ output.route[Len(output.route)] = destination
        /\ output.total = Dist(eng, destination)
        /\ output.total \in WalkWeights(graph, output.route)

\* C5: a query whose destination is out of reach ends in "no route", with no
\* error and nothing of a route printed, and "no route" is reported for no
\* other query.
C5_NoRouteIffUnreachable ==
    Answered =>
        /\ output.outcome \in {"route", "no route"}
        /\ output.outcome = "no route" <=> ~Reachable(graph, origin, destination)
        /\ output.outcome = "no route" => output.route = <<>> /\ output.total = None

\* a later query ended in "no route" after the walk followed a predecessor
\* left by an earlier query
C5_Witness ==
    /\ Answered
    /\ queries = 2
    /\ output.outcome = "no route"
    /\ Pred(eng, destination) # None
    /\ Len(eng.stack.items) >= 2

\* the vertex is still in the working set
InArray(a, v) == \E i \in 1..Len(a) : a[i] = v

AirportCount(e) == Len(HashKeys(e.airports))

\* C24: when the relaxation of a find_shortest_paths call starts, also in a
\* later query of the session, the origin has distance 0, every other vertex
\* the distance -1, and every vertex the predecessor None.
C24_TablesFreshAtStart ==
    (pc = "loop" /\ Len(vertex_array) = AirportCount(eng)) =>
        \A v \in GraphKeys(graph) :
            /\ Dist(eng, v) = IF v = origin THEN 0 ELSE Unreached
            /\ Pred(eng, v) = None

\* C25: the route stack is empty when the reconstruction of a query begins,
\* also after an earlier query of the session ended with no route.
C25_StackEmptyAtReconstruction ==
    pc = "found" => StackEmpty(eng.stack) /\ eng.stack.items = <<>>

\* the vertices the walk back from d pushes, and how it ends, within fuel steps
Walk(e, d, o, fuel) == WalkBack(e, d, o, NewStack, fuel)

\* C26: when the reconstruction of a query begins, the predecessor links
\* followed from any vertex reach the origin or a vertex without predecessor
\* within |V| steps, passing no vertex twice, whatever earlier queries left in
\* the predecessor table.
C26_WalkBackTerminates ==
    pc = "found" =>
        \A d \in GraphKeys(graph) :
            LET w == Walk(eng, d, origin, AirportCount(eng))
            IN  /\ w.outcome \in {"route", "no route"}
                /\ Len(w.stack.items) <= AirportCount(eng)
                /\ \A i, j \in 1..Len(w.stack.items) :
                      i # j => w.stack.items[i] # w.stack.items[j]

\* in a later query, a vertex that the search did not reach has a predecessor
\* left by an earlier query, and the walk from it passes two vertices
C26_Witness ==
    /\ pc = "found"
    /\ queries >= 1
    /\ \E d \in GraphKeys(graph) :
          /\ Dist(eng, d) = Unreached
          /\ Pred(eng, d) # None
          /\ Len(Walk(eng, d, origin, AirportCount(eng)).stack.items) >= 2

\* C27: the vertex an iteration selects is in the working set, is reached, no
\* reached vertex of the working set is nearer, and no reached vertex as near
\* comes before it in the working set.
C27_SelectsFirstNearest ==
    [][(pc = "loop" /\ pc' = "loop") =>
          \E i \in 1..Len(vertex_array) :
              /\ vertex_array[i] = minimum_distance_vertex'
              /\ Dist(eng, vertex_array[i]) # Unreached
              /\ \A j \in 1..Len(vertex_array) :
                    Dist(eng, vertex_array[j]) # Unreached =>
                        \/ Dist(eng, vertex_array[i]) < Dist(eng, vertex_array[j])
                        \/ /\ Dist(eng, vertex_array[i]) = Dist(eng, vertex_array[j])
                           /\ i <= j]_vars

\* the vertex selected was as near as a vertex that is still in the working
\* set and that it did not relax
C27_Witness ==
    /\ pc = "loop"
    /\ minimum_distance_vertex # None
    /\ \E i \in 1..Len(vertex_array) :
          /\ Dist(eng, vertex_array[i]) = Dist(eng, minimum_distance_vertex)
          /\ Pred(eng, vertex_array[i]) # minimum_distance_vertex

\* C28: every iteration of the loop takes one vertex out of the working set or
\* ends the loop; the loop ends exactly when no vertex of the working set is
\* reached; the working set never holds more than |V| vertices, and the loop
\* does end.
C28_LoopTerminates ==
    /\ [](pc = "loop" => Len(vertex_array) <= AirportCount(eng))
    /\ [][pc = "loop" =>
              IF \E i \in 1..Len(vertex_array) : Dist(eng, vertex_array[i]) # Unreached
              THEN /\ pc' = "loop"
                   /\ \E i \in 1..Len(vertex_array) :
                         vertex_array' = WithoutOne(vertex_array, i)
              ELSE pc' = "found"]_vars
    /\ (pc = "loop" ~> pc = "found")

\* the loop has ended after two iterations or more with vertices left that
\* the origin does not reach
C28_Witness ==
    /\ pc = "found"
    /\ vertex_array # <<>>
    /\ Len(vertex_array) + 2 <= AirportCount(eng)

\* C29: in an iteration of the loop the distance and the predecessor of a
\* vertex that has left the working set, the one just selected included, do
\* not change; a distance that is set does not grow, and the predecessor of
\* the origin stays None.
C29_FinalizedNeverChange ==
    [][(pc = "loop" /\ pc' = "loop") =>
          /\ \A v \in GraphKeys(graph) :
                /\ ~InArray(vertex_array', v) =>
                      /\ Dist(eng', v) = Dist(eng, v)
                      /\ Pred(eng', v) = Pred(eng, v)
                /\ Dist(eng, v) # Unreached =>
                      /\ Dist(eng', v) # Unreached
                      /\ Dist(eng', v) <= Dist(eng, v)
          /\ Pred(eng', origin) = None]_vars

\* the vertex just relaxed has an edge to a vertex that had left the working
\* set before
C29_Witness ==
    /\ pc = "loop"
    /\ minimum_distance_vertex # None
    /\ \E f \in GraphKeys(graph) :
          /\ f # minimum_distance_vertex
          /\ ~InArray(vertex_array, f)
          /\ Weights(graph, minimum_distance_vertex, f) # {}

\* C30: during the loop and after it, every vertex other than the origin whose
\* distance is set has a predecessor that has left the working set, and its
\* distance is the distance of the predecessor plus the weight of an edge from
\* the predecessor to it.
C30_DistanceThroughPredecessor ==
    pc \in {"loop", "found"} =>
        \A v \in GraphKeys(graph) \ {origin} :
            Dist(eng, v) # Unreached =>
                /\ Pred(eng, v) # None
                /\ ~InArray(vertex_array, Pred(eng, v))
                /\ Dist(eng, Pred(eng, v)) # Unreached
                /\ (Dist(eng, v) - Dist(eng, Pred(eng, v)))
                       \in Weights(graph, Pred(eng, v), v)

\* a vertex still in the working set has had its distance lowered to go
\* through a second predecessor
C30_Witness ==
    /\ pc = "loop"
    /\ origin = 0
    /\ InArray(vertex_array, 2)
    /\ Dist(eng, 2) = 3
    /\ Pred(eng, 2) = 1
    /\ Weights(graph, 0, 2) # {}

(***************************************************************************)
(* Properties of the array.                                                *)
(***************************************************************************)
\* C21: get and set at index i fail with IndexError when i < 0 or
\* i >= len(), and succeed when 0 <= i < len(), whatever was appended,
\* deleted or cleared before.
C21_IndexWithinLen ==
    \A i \in Indices, v \in Vals :
        IF 0 <= i /\ i < ArrayLen(arr)
        THEN /\ ArrayGetItem(arr, i).err = "none"
             /\ ArraySetItem(arr, i, v).err = "none"
        ELSE /\ ArrayGetItem(arr, i).err = "IndexError"
             /\ ArraySetItem(arr, i, v).err = "IndexError"

\* C22: append(x) succeeds in every state of the array, makes len() one
\* more, stores x at index len() - 1 and leaves the items at the earlier
\* indices as they were.
C22_AppendSucceeds ==
    \A v \in Vals :
        LET r == ArrayAppend(arr, v)
        IN  /\ r.err = "none"
            /\ ArrayLen(r.a) = ArrayLen(arr) + 1
            /\ ArrayGetItem(r.a, ArrayLen(r.a) - 1).val = v
            /\ \A i \in 0..(ArrayLen(arr) - 1) :
                  ArrayGetItem(r.a, i).val = ArrayGetItem(arr, i).val

====
